---- MODULE Spec2Model ----
(***************************************************************************)
(* A model of agent.py: the module-level configuration load (prompt.yaml   *)
(* and the process environment), the DefaultAgent class, the prewarm hook  *)
(* and the RTC session entrypoint, together with the steps of the agent    *)
(* framework that call them (worker start, job dispatch, agent entry, the  *)
(* audio-input noise-cancellation callback).                               *)
(***************************************************************************)
EXTENDS Integers, Sequences, FiniteSets, TLC

(***************************************************************************)
(* Bounds of the model.                                                    *)
(***************************************************************************)
\* Jobs dispatched to the worker process.
MaxJobs == 2
\* Changes made to the environment or to prompt.yaml after the module loaded.
MaxChanges == 1

Jobs == 1..MaxJobs

(***************************************************************************)
(* Python values.  Every value carries its type; the payload field differs *)
(* by type, so values of different types are never equal.                  *)
(***************************************************************************)
PyNone == [type |-> "NoneType"]
PyStr(text) == [type |-> "str", s |-> text]
PyInt(k) == [type |-> "int", n |-> k]
\* A float is kept in thousandths: 0.6 is PyFloat(600).
PyFloat(milli) == [type |-> "float", milli |-> milli]
PyDict(f) == [type |-> "dict", items |-> f]
PyList == [type |-> "list"]
\* A module global that no statement has assigned yet.
Unbound == [type |-> "unbound"]

\* Python truthiness of a value, as `not KEY` uses it.
Truthy(v) ==
    CASE v.type = "NoneType" -> FALSE
      [] v.type = "str" -> v.s # ""
      [] v.type = "int" -> v.n # 0
      [] v.type = "float" -> v.milli # 0
      [] v.type = "dict" -> DOMAIN v.items # {}
      [] OTHER -> TRUE

(***************************************************************************)
(* Text given to float() and int() is a sequence of characters.            *)
(***************************************************************************)
Digits == {"0", "1", "2", "3", "4", "5", "6", "7", "8", "9"}

DigitVal(c) ==
    CASE c = "0" -> 0 [] c = "1" -> 1 [] c = "2" -> 2 [] c = "3" -> 3
      [] c = "4" -> 4 [] c = "5" -> 5 [] c = "6" -> 6 [] c = "7" -> 7
      [] c = "8" -> 8 [] c = "9" -> 9

RECURSIVE Strip(_)
\* str.strip(): float() and int() ignore surrounding whitespace.
Strip(t) ==
    IF t = <<>> THEN t
    ELSE IF Head(t) = " " THEN Strip(Tail(t))
    ELSE IF t[Len(t)] = " " THEN Strip(SubSeq(t, 1, Len(t) - 1))
    ELSE t

\* The text without one leading sign.
Unsigned(t) == IF t # <<>> /\ Head(t) \in {"+", "-"} THEN Tail(t) ELSE t
Sign(t) == IF t # <<>> /\ Head(t) = "-" THEN -1 ELSE 1

AllDigits(t) == \A i \in 1..Len(t) : t[i] \in Digits

RECURSIVE DecimalValue(_)
DecimalValue(t) ==
    IF t = <<>> THEN 0
    ELSE 10 * DecimalValue(SubSeq(t, 1, Len(t) - 1)) + DigitVal(t[Len(t)])

\* int(text): optional whitespace, optional sign, one or more digits.
IntParses(text) ==
    LET body == Unsigned(Strip(text))
    IN  body # <<>> /\ AllDigits(body)
IntValue(text) ==
    LET t == Strip(text)
    IN  Sign(t) * DecimalValue(Unsigned(t))

Dots(t) == {i \in 1..Len(t) : t[i] = "."}
IntPart(t) == IF Dots(t) = {} THEN t ELSE SubSeq(t, 1, (CHOOSE i \in Dots(t) : TRUE) - 1)
FracPart(t) == IF Dots(t) = {} THEN <<>> ELSE SubSeq(t, (CHOOSE i \in Dots(t) : TRUE) + 1, Len(t))

\* float(text): optional whitespace, optional sign, digits with at most one
\* decimal point and at least one digit.
FloatParses(text) ==
    LET body == Unsigned(Strip(text))
    IN  /\ Cardinality(Dots(body)) <= 1
        /\ AllDigits(IntPart(body)) /\ AllDigits(FracPart(body))
        /\ Len(IntPart(body)) + Len(FracPart(body)) >= 1
\* The value in thousandths (fractions of up to three digits are exact).
FloatMilli(text) ==
    LET t == Strip(text)
        body == Unsigned(t)
        frac == SubSeq(FracPart(body) \o <<"0", "0", "0">>, 1, 3)
    IN  Sign(t) * (1000 * DecimalValue(IntPart(body)) + DecimalValue(frac))

(***************************************************************************)
(* The process environment and prompt.yaml.                                *)
(***************************************************************************)
EnvNames == {"DEEPGRAM_API_KEY", "GROQ_API_KEY", "GROQ_MODEL", "GROQ_TEMPERATURE",
             "GROQ_MAX_TOKENS", "DEEPGRAM_MODEL", "DEEPGRAM_LANGUAGE"}

\* A variable is unset (<<>>) or set to one text (<<text>>).
NotSet == <<>>
SetTo(text) == <<text>>

\* The texts each variable is set to in the model; numeric settings are
\* character sequences, the others are strings.
EnvTexts(name) ==
    CASE name = "DEEPGRAM_API_KEY" -> {"dg-secret"}
      [] name = "GROQ_API_KEY" -> {"gsk-secret", ""}
      [] name = "GROQ_MODEL" -> {"llama-3.3-70b-versatile"}
      [] name = "GROQ_TEMPERATURE" -> {<<"0", ".", "7">>, <<" ", "1", " ">>, <<"w", "a", "r", "m">>}
      [] name = "GROQ_MAX_TOKENS" -> {<<" ", "5", "0">>, <<"1", ".", "5">>, <<>>}
      [] name = "DEEPGRAM_MODEL" -> {"nova-3"}
      [] name = "DEEPGRAM_LANGUAGE" -> {"hi"}

AllUnset == [n \in EnvNames |-> NotSet]
\* An environment with every variable set to a value the load accepts.
AllSet ==
    [n \in EnvNames |->
        CASE n = "GROQ_TEMPERATURE" -> SetTo(<<"0", ".", "7">>)
          [] n = "GROQ_MAX_TOKENS" -> SetTo(<<" ", "5", "0">>)
          [] n = "GROQ_API_KEY" -> SetTo("gsk-secret")
          [] OTHER -> SetTo(CHOOSE t \in EnvTexts(n) : TRUE)]
\* The environments a process starts in (after load_dotenv): nothing set,
\* one variable set, everything set.
Environments ==
    {AllUnset, AllSet}
    \cup {[AllUnset EXCEPT ![n] = SetTo(t)] : <<n, t>> \in UNION {{n} \X EnvTexts(n) : n \in EnvNames}}

DefaultPrompt == "You are a friendly voice assistant."
PersonaText == "You are Harper, the receptionist of a dental clinic."

NoItems == [k \in {} |-> PyNone]
Persona(text) == PyDict([k \in {"Prompt"} |-> PyStr(text)])
\* What yaml.safe_load returns for the prompt.yaml files of the model.
YamlDocuments ==
    { PyNone,                                                     \* an empty file
      PyList,                                                     \* a top-level list
      PyDict(NoItems),                                            \* {}
      PyDict([k \in {"SALON"} |-> Persona("You book haircuts.")]), \* another persona only
      PyDict([k \in {"DENTALCLINIC"} |-> PyNone]),                \* DENTALCLINIC:
      PyDict([k \in {"DENTALCLINIC"} |-> PyDict([q \in {"Voice"} |-> PyStr("thalia")])]),
      PyDict([k \in {"DENTALCLINIC"} |-> Persona(PersonaText)]),
      PyDict([k \in {"DENTALCLINIC"} |-> Persona("")]) }

\* os.getenv(name): None when unset.
GetEnv(e, name) == IF e[name] = NotSet THEN PyNone ELSE PyStr(e[name][1])
\* A variant of GetEnvText that never looks at the environment.
GetEnvTextIgnoringEnv(e, name, default) == default
\* os.getenv(name, default): the text of the variable, or the default text.
GetEnvText(e, name, default) == IF e[name] = NotSet THEN default ELSE e[name][1]

\* A variant of DictGet that returns the default also for a key it holds.
DictGetIgnoringKey(d, key, default) == default
\* d.get(key, default) on a value that has the method.
HasGet(d) == d.type = "dict"
DictGet(d, key, default) == IF key \in DOMAIN d.items THEN d.items[key] ELSE default

(***************************************************************************)
(* Literals of the source.                                                 *)
(***************************************************************************)
DefaultGroqModel == "moonshotai/kimi-k2-instruct"
DefaultTemperatureText == <<"0", ".", "6">>
DefaultMaxTokensText == <<"2", "0", "0">>
DefaultDeepgramModel == "nova-2"
DefaultDeepgramLanguage == "en-IN"
TtsModel == "aura-2-thalia-en"
AgentName == "Harper-1370"
DeepgramKeyWarning == "DEEPGRAM_API_KEY not found in environment variables"
GroqKeyWarning == "GROQ_API_KEY not found in environment variables"
OnEnterInstructions == "Greet the user and offer your assistance."
GreetText == "Hi, I'm your AI receptionist. How can I help you today?"
WelcomeText == "Hello! Welcome to our dental clinic. How may I help you?"

ParticipantKinds == {"STANDARD", "INGRESS", "EGRESS", "SIP", "AGENT"}

(***************************************************************************)
(* State.                                                                  *)
(***************************************************************************)
VARIABLES
    prompt_yaml,        \* what prompt.yaml holds on disk (as safe_load reads it)
    environ,            \* os.environ, after load_dotenv(".env.local")
    changes,            \* changes made to environ or prompt.yaml after the load
    pc,                 \* position of the module load
    raised,             \* the exception the module load raised, "" for none
    prompts,            \* module globals, Unbound until assigned
    dental_persona,
    DENTAL_PROMPT,
    DEEPGRAM_API_KEY,
    GROQ_API_KEY,
    GROQ_MODEL,
    GROQ_TEMPERATURE,
    GROQ_MAX_TOKENS,
    DEEPGRAM_MODEL,
    DEEPGRAM_LANGUAGE,
    log,                \* records logged on "agent-Harper-1370"
    server,             \* the AgentServer: <<>> before it is created
    proc,               \* the worker process: "init", "ready" or "crashed"
    userdata,           \* proc.userdata
    vadLoads,           \* calls of silero.VAD.load() so far
    vadWrites,          \* assignments to userdata["vad"] so far
    jobs,               \* per job: the entrypoint's position and what it did
    nc                  \* the last call of the noise-cancellation selector

world == <<prompt_yaml, environ, changes>>
promptGlobals == <<prompts, dental_persona, DENTAL_PROMPT>>
keyGlobals == <<DEEPGRAM_API_KEY, GROQ_API_KEY>>
settingGlobals == <<GROQ_MODEL, GROQ_TEMPERATURE, GROQ_MAX_TOKENS, DEEPGRAM_MODEL, DEEPGRAM_LANGUAGE>>
globals == <<promptGlobals, keyGlobals, settingGlobals>>
worker == <<proc, userdata, vadLoads, vadWrites>>
vars == <<world, pc, raised, globals, log, server, worker, jobs, nc>>

\* A job before its entrypoint runs.  sessions counts the AgentSession objects
\* built for it, room is the room session.start was given, after_change
\* notes whether the surroundings had changed when the session was built.
NoJob ==
    [pc |-> "pending", sessions |-> 0, session |-> <<>>, agent |-> <<>>,
     room |-> 0, started |-> FALSE, entered |-> 0, replies |-> <<>>, said |-> <<>>,
     after_change |-> FALSE]

Init ==
    /\ prompt_yaml \in YamlDocuments
    /\ environ \in Environments
    /\ changes = 0
    /\ pc = "prompt"
    /\ raised = ""
    /\ prompts = Unbound /\ dental_persona = Unbound /\ DENTAL_PROMPT = Unbound
    /\ DEEPGRAM_API_KEY = Unbound /\ GROQ_API_KEY = Unbound
    /\ GROQ_MODEL = Unbound /\ GROQ_TEMPERATURE = Unbound /\ GROQ_MAX_TOKENS = Unbound
    /\ DEEPGRAM_MODEL = Unbound /\ DEEPGRAM_LANGUAGE = Unbound
    /\ log = <<>>
    /\ server = <<>>
    /\ proc = "init" /\ userdata = NoItems /\ vadLoads = 0 /\ vadWrites = 0
    /\ jobs = [j \in Jobs |-> NoJob]
    /\ nc = <<>>

(***************************************************************************)
(* Module load, lines 27-61: the statements run in order, and an exception *)
(* ends the load with the globals assigned so far.                         *)
(***************************************************************************)
\* Lines 32-39: read prompt.yaml and resolve the DENTALCLINIC prompt.
LoadPrompt ==
    /\ pc = "prompt"
    /\ prompts' = prompt_yaml
    /\ IF ~HasGet(prompt_yaml)
       THEN \* prompts.get: 'NoneType'/'list' object has no attribute 'get'
            /\ pc' = "raised" /\ raised' = "AttributeError"
            /\ UNCHANGED <<dental_persona, DENTAL_PROMPT>>
       ELSE /\ dental_persona' = DictGet(prompt_yaml, "DENTALCLINIC", PyDict(NoItems))
            /\ IF ~HasGet(dental_persona')
               THEN /\ pc' = "raised" /\ raised' = "AttributeError"
                    /\ UNCHANGED DENTAL_PROMPT
               ELSE /\ DENTAL_PROMPT' = DictGet(dental_persona', "Prompt", PyStr(DefaultPrompt))
                    /\ pc' = "keys" /\ UNCHANGED raised
    /\ UNCHANGED <<world, keyGlobals, settingGlobals, log, server, worker, jobs, nc>>

\* A variant of WarnIfMissing that logs at error level.
WarnIfMissingAsError(records, key, msg) ==
    IF ~Truthy(key) THEN Append(records, [level |-> "ERROR", msg |-> msg]) ELSE records

\* logger.warning(msg) when the key is falsy (None or empty).
WarnIfMissing(records, key, msg) ==
    IF ~Truthy(key) THEN Append(records, [level |-> "WARNING", msg |-> msg]) ELSE records

\* Lines 45-52: read the two API keys, warn about each missing one.
LoadApiKeys ==
    /\ pc = "keys"
    /\ DEEPGRAM_API_KEY' = GetEnv(environ, "DEEPGRAM_API_KEY")
    /\ GROQ_API_KEY' = GetEnv(environ, "GROQ_API_KEY")
    /\ log' = WarnIfMissing(WarnIfMissing(log, DEEPGRAM_API_KEY', DeepgramKeyWarning),
                            GROQ_API_KEY', GroqKeyWarning)
    /\ pc' = "settings"
    /\ UNCHANGED <<world, raised, promptGlobals, settingGlobals, server, worker, jobs, nc>>

\* A variant of LoadProviderSettings that falls back to the default when a
\* numeric setting does not parse.
LoadProviderSettingsLenient ==
    /\ pc = "settings"
    /\ GROQ_MODEL' = PyStr(GetEnvText(environ, "GROQ_MODEL", DefaultGroqModel))
    /\ LET temperature == GetEnvText(environ, "GROQ_TEMPERATURE", DefaultTemperatureText)
           max_tokens == GetEnvText(environ, "GROQ_MAX_TOKENS", DefaultMaxTokensText)
       IN  /\ GROQ_TEMPERATURE' = PyFloat(FloatMilli(IF FloatParses(temperature) THEN temperature
                                                                                ELSE DefaultTemperatureText))
           /\ GROQ_MAX_TOKENS' = PyInt(IntValue(IF IntParses(max_tokens) THEN max_tokens
                                                                         ELSE DefaultMaxTokensText))
    /\ DEEPGRAM_MODEL' = PyStr(GetEnvText(environ, "DEEPGRAM_MODEL", DefaultDeepgramModel))
    /\ DEEPGRAM_LANGUAGE' = PyStr(GetEnvText(environ, "DEEPGRAM_LANGUAGE", DefaultDeepgramLanguage))
    /\ pc' = "server" /\ UNCHANGED raised
    /\ UNCHANGED <<world, promptGlobals, keyGlobals, log, server, worker, jobs, nc>>

\* Lines 55-61: the provider settings; float() and int() raise ValueError.
LoadProviderSettings ==
    /\ pc = "settings"
    /\ GROQ_MODEL' = PyStr(GetEnvText(environ, "GROQ_MODEL", DefaultGroqModel))
    /\ LET temperature == GetEnvText(environ, "GROQ_TEMPERATURE", DefaultTemperatureText)
           max_tokens == GetEnvText(environ, "GROQ_MAX_TOKENS", DefaultMaxTokensText)
       IN  IF ~FloatParses(temperature)
           THEN /\ pc' = "raised" /\ raised' = "ValueError"
                /\ UNCHANGED <<GROQ_TEMPERATURE, GROQ_MAX_TOKENS, DEEPGRAM_MODEL, DEEPGRAM_LANGUAGE>>
           ELSE /\ GROQ_TEMPERATURE' = PyFloat(FloatMilli(temperature))
                /\ IF ~IntParses(max_tokens)
                   THEN /\ pc' = "raised" /\ raised' = "ValueError"
                        /\ UNCHANGED <<GROQ_MAX_TOKENS, DEEPGRAM_MODEL, DEEPGRAM_LANGUAGE>>
                   ELSE /\ GROQ_MAX_TOKENS' = PyInt(IntValue(max_tokens))
                        /\ DEEPGRAM_MODEL' = PyStr(GetEnvText(environ, "DEEPGRAM_MODEL", DefaultDeepgramModel))
                        /\ DEEPGRAM_LANGUAGE' = PyStr(GetEnvText(environ, "DEEPGRAM_LANGUAGE", DefaultDeepgramLanguage))
                        /\ pc' = "server" /\ UNCHANGED raised
    /\ UNCHANGED <<world, promptGlobals, keyGlobals, log, server, worker, jobs, nc>>

\* Lines 99-116 and 187-188: the server, its prewarm hook and its session
\* handler; run_app then hands the server to the framework.
CreateServer ==
    /\ pc = "server"
    /\ server' = <<[setup_fnc |-> "prewarm", rtc_session |-> "entrypoint", agent_name |-> AgentName]>>
    /\ pc' = "loaded"
    /\ UNCHANGED <<world, raised, globals, log, worker, jobs, nc>>

(***************************************************************************)
(* DefaultAgent, lines 67-93.                                              *)
(***************************************************************************)
\* DefaultAgent.__init__: super().__init__(instructions=DENTAL_PROMPT).
DefaultAgent == [class |-> "DefaultAgent", instructions |-> DENTAL_PROMPT]

\* DefaultAgent.greet: context.session.say of the fixed literal.
greet(job) == [job EXCEPT !.said = Append(@, GreetText)]

\* A variant of on_enter that greets through greet.
on_enter_greets(job) == greet(job)

\* DefaultAgent.on_enter: one generate_reply request on the agent's session.
on_enter(job) ==
    [job EXCEPT !.replies = Append(@, [instructions |-> OnEnterInstructions,
                                        allow_interruptions |-> TRUE])]

(***************************************************************************)
(* The prewarm hook, lines 101-110.                                        *)
(***************************************************************************)
\* proc.userdata["vad"] = <the loaded model>
prewarm(data, vad) == [k \in DOMAIN data \cup {"vad"} |-> IF k = "vad" THEN vad ELSE data[k]]

\* The framework runs setup_fnc once when the worker process starts, before
\* it serves a job; silero.VAD.load() returns a model or raises, and the
\* exception is not handled.
Prewarm ==
    /\ pc = "loaded" /\ proc = "init"
    /\ server # <<>> /\ server[1].setup_fnc = "prewarm"
    /\ vadLoads' = vadLoads + 1
    /\ \/ /\ userdata' = prewarm(userdata, vadLoads')
          /\ vadWrites' = vadWrites + 1
          /\ proc' = "ready"
       \/ /\ proc' = "crashed"
          /\ UNCHANGED <<userdata, vadWrites>>
    /\ UNCHANGED <<world, pc, raised, globals, log, server, jobs, nc>>

(***************************************************************************)
(* The session entrypoint, lines 115-184.  The code between two awaits     *)
(* runs without interleaving on the worker's event loop.                   *)
(***************************************************************************)
\* A variant of SttOptions that reads the environment when the session is
\* built.
SttOptionsFromEnviron ==
    [api_key |-> GetEnv(environ, "DEEPGRAM_API_KEY"),
     model |-> PyStr(GetEnvText(environ, "DEEPGRAM_MODEL", DefaultDeepgramModel)),
     language |-> PyStr(GetEnvText(environ, "DEEPGRAM_LANGUAGE", DefaultDeepgramLanguage))]

\* deepgram.STT(...), lines 128-132.
SttOptions == [api_key |-> DEEPGRAM_API_KEY, model |-> DEEPGRAM_MODEL, language |-> DEEPGRAM_LANGUAGE]
\* groq.LLM(...), lines 136-141.
LlmOptions ==
    [api_key |-> GROQ_API_KEY, model |-> GROQ_MODEL, temperature |-> GROQ_TEMPERATURE,
     max_completion_tokens |-> GROQ_MAX_TOKENS]
\* deepgram.TTS(...), lines 145-148.
TtsOptions == [api_key |-> DEEPGRAM_API_KEY, model |-> PyStr(TtsModel)]

\* AgentSession(...), lines 125-158.
AgentSession ==
    [stt |-> SttOptions, llm |-> LlmOptions, tts |-> TtsOptions,
     turn_detection |-> "MultilingualModel", vad |-> userdata["vad"],
     preemptive_generation |-> TRUE]

\* A variant of noise_cancellation with the two filters exchanged.
noise_cancellation_swapped(kind) == IF kind = "SIP" THEN "BVC" ELSE "BVCTelephony"

\* The lambda of line 175.
noise_cancellation(kind) == IF kind = "SIP" THEN "BVCTelephony" ELSE "BVC"

\* A variant of Entrypoint that loads the VAD model itself and stores it.
EntrypointReloadsVad(j) ==
    /\ pc = "loaded" /\ proc = "ready"
    /\ server # <<>> /\ server[1].rtc_session = "entrypoint"
    /\ jobs[j].pc = "pending"
    /\ vadLoads' = vadLoads + 1
    /\ vadWrites' = vadWrites + 1
    /\ userdata' = prewarm(userdata, vadLoads')
    /\ jobs' = [jobs EXCEPT ![j] =
                  [@ EXCEPT !.sessions = @ + 1,
                            !.session = <<[AgentSession EXCEPT !.vad = vadLoads']>>,
                            !.agent = <<DefaultAgent>>, !.room = j,
                            !.after_change = (changes > 0),
                            !.pc = "starting"]]
    /\ UNCHANGED <<world, pc, raised, globals, log, server, proc, nc>>

\* Lines 125-168, up to the await of session.start: the session, the agent,
\* and the start request against the job's own room.
Entrypoint(j) ==
    /\ pc = "loaded" /\ proc = "ready"
    /\ server # <<>> /\ server[1].rtc_session = "entrypoint"
    /\ jobs[j].pc = "pending"
    /\ IF "vad" \notin DOMAIN userdata
       THEN jobs' = [jobs EXCEPT ![j].pc = "failed"]         \* KeyError: 'vad'
       ELSE jobs' = [jobs EXCEPT ![j] =
                        [@ EXCEPT !.sessions = @ + 1, !.session = <<AgentSession>>,
                                  !.agent = <<DefaultAgent>>, !.room = j,
                                  !.after_change = (changes > 0),
                                  !.pc = "starting"]]
    /\ UNCHANGED <<world, pc, raised, globals, log, server, worker, nc>>

\* session.start returns; line 184 then requests the welcome message.
StartReturns(j) ==
    /\ jobs[j].pc = "starting"
    /\ jobs' = [jobs EXCEPT ![j] =
                  [@ EXCEPT !.started = TRUE, !.said = Append(@, WelcomeText), !.pc = "saying"]]
    /\ UNCHANGED <<world, pc, raised, globals, log, server, worker, nc>>

\* A variant of StartRaises that swallows the exception and goes on to greet.
StartRaisesButGreets(j) ==
    /\ jobs[j].pc = "starting"
    /\ jobs' = [jobs EXCEPT ![j] = [@ EXCEPT !.said = Append(@, WelcomeText), !.pc = "failed"]]
    /\ UNCHANGED <<world, pc, raised, globals, log, server, worker, nc>>

\* session.start raises: the entrypoint ends there.
StartRaises(j) ==
    /\ jobs[j].pc = "starting"
    /\ jobs' = [jobs EXCEPT ![j].pc = "failed"]
    /\ UNCHANGED <<world, pc, raised, globals, log, server, worker, nc>>

\* session.say returns or raises: the entrypoint ends either way.
SayEnds(j) ==
    /\ jobs[j].pc = "saying"
    /\ jobs' = [jobs EXCEPT ![j].pc = "done"]
    /\ UNCHANGED <<world, pc, raised, globals, log, server, worker, nc>>

\* The framework enters the agent into the session it was started with and
\* runs its on_enter as a task of its own.
AgentEnters(j) ==
    /\ jobs[j].pc \in {"starting", "saying", "done"}
    /\ jobs[j].entered = 0
    /\ jobs' = [jobs EXCEPT ![j] = on_enter([@ EXCEPT !.entered = @ + 1])]
    /\ UNCHANGED <<world, pc, raised, globals, log, server, worker, nc>>

\* The framework asks the audio-input option of a started session for the
\* filter of a participant.
SelectNoiseCancellation(kind) ==
    /\ \E j \in Jobs : jobs[j].pc \in {"starting", "saying", "done"}
    /\ nc' = <<[kind |-> kind, filter |-> noise_cancellation(kind)]>>
    /\ UNCHANGED <<world, pc, raised, globals, log, server, worker, jobs>>

Next ==
    \/ LoadPrompt
    \/ LoadApiKeys
    \/ LoadProviderSettings
    \/ CreateServer
    \/ Prewarm
    \/ \E j \in Jobs : Entrypoint(j)
    \/ \E j \in Jobs : StartReturns(j)
    \/ \E j \in Jobs : StartRaises(j)
    \/ \E j \in Jobs : SayEnds(j)
    \/ \E j \in Jobs : AgentEnters(j)
    \/ \E kind \in ParticipantKinds : SelectNoiseCancellation(kind)

Spec == Init /\ [][Next]_vars

(***************************************************************************)
(* The surroundings: after the load, the environment and prompt.yaml may   *)
(* be changed by anyone.  SpecDrift adds these changes to the program's    *)
(* steps, from a load that succeeds.                                       *)
(***************************************************************************)
\* The text a variable is changed to after the load.
ChangedText(name) ==
    CASE name = "DEEPGRAM_API_KEY" -> "dg-rotated"
      [] name = "GROQ_API_KEY" -> "gsk-rotated"
      [] name = "GROQ_MODEL" -> "qwen/qwen3-32b"
      [] name = "GROQ_TEMPERATURE" -> <<"1", ".", "2", "5">>
      [] name = "GROQ_MAX_TOKENS" -> <<"9", "0", "0">>
      [] name = "DEEPGRAM_MODEL" -> "nova-2-phonecall"
      [] name = "DEEPGRAM_LANGUAGE" -> "de"

\* What prompt.yaml is rewritten to: another prompt, or nothing at all.
RewrittenDocuments == {PyDict([k \in {"DENTALCLINIC"} |-> Persona("You are Max.")]), PyNone}

SetEnv(name) ==
    /\ pc = "loaded" /\ changes < MaxChanges
    /\ environ[name] # SetTo(ChangedText(name))
    /\ environ' = [environ EXCEPT ![name] = SetTo(ChangedText(name))]
    /\ changes' = changes + 1
    /\ UNCHANGED <<prompt_yaml, pc, raised, globals, log, server, worker, jobs, nc>>

RewritePrompt(doc) ==
    /\ pc = "loaded" /\ changes < MaxChanges
    /\ doc # prompt_yaml
    /\ prompt_yaml' = doc
    /\ changes' = changes + 1
    /\ UNCHANGED <<environ, pc, raised, globals, log, server, worker, jobs, nc>>

InitDrift ==
    /\ Init
    /\ environ \in {AllUnset, AllSet}
    /\ prompt_yaml = PyDict([k \in {"DENTALCLINIC"} |-> Persona(PersonaText)])

\* The load, the worker and the jobs, with the changes of the surroundings;
\* the filter selector reads no configuration and is followed in Spec.
NextDrift ==
    \/ LoadPrompt
    \/ LoadApiKeys
    \/ LoadProviderSettings
    \/ CreateServer
    \/ Prewarm
    \/ \E j \in Jobs : Entrypoint(j)
    \/ \E j \in Jobs : StartReturns(j)
    \/ \E j \in Jobs : StartRaises(j)
    \/ \E j \in Jobs : SayEnds(j)
    \/ \E j \in Jobs : AgentEnters(j)
    \/ \E name \in EnvNames : SetEnv(name)
    \/ \E doc \in RewrittenDocuments : RewritePrompt(doc)

SpecDrift == InitDrift /\ [][NextDrift]_vars

(***************************************************************************)
(* Properties.                                                             *)
(***************************************************************************)
\* Positions of the load at which lines 32-39, 45-52 and 55-61 have run.
PromptStepDone == pc # "prompt"
KeysStepDone == pc \in {"settings", "server", "loaded"} \/ (pc = "raised" /\ raised = "ValueError")
SettingsStepDone == pc \in {"server", "loaded", "raised"}

HasSession(j) == jobs[j].session # <<>>
SessionOf(j) == jobs[j].session[1]

\* prompt.yaml is a mapping with a DENTALCLINIC key.
HasPersonaKey(doc) == IF doc.type = "dict" THEN "DENTALCLINIC" \in DOMAIN doc.items ELSE FALSE
\* ... whose value is a mapping with a Prompt key.
HasPromptKey(doc) ==
    IF HasPersonaKey(doc)
    THEN IF doc.items["DENTALCLINIC"].type = "dict"
         THEN "Prompt" \in DOMAIN doc.items["DENTALCLINIC"].items
         ELSE FALSE
    ELSE FALSE
\* A prompt.yaml the prompt step reads without raising.
PromptReadable(doc) ==
    IF doc.type = "dict"
    THEN "DENTALCLINIC" \in DOMAIN doc.items => doc.items["DENTALCLINIC"].type = "dict"
    ELSE FALSE

\* C1: whenever prompt.yaml lacks a DENTALCLINIC key, or has one without a
\* Prompt key, the prompt step completes without raising and DENTAL_PROMPT
\* is the literal default "You are a friendly voice assistant.".
C1_DefaultWhenPersonaAbsent ==
    (PromptStepDone /\ ~HasPromptKey(prompt_yaml))
        => /\ raised # "AttributeError"
           /\ DENTAL_PROMPT = PyStr("You are a friendly voice assistant.")

\* C2: when prompt.yaml holds DENTALCLINIC: {Prompt: X} for a text X, the
\* resolved DENTAL_PROMPT is exactly X, and every DefaultAgent constructed
\* carries exactly X as its instructions.
C2_PromptIsExactlyX ==
    \A X \in {PersonaText, "", "You book haircuts."} :
        (PromptStepDone /\ prompt_yaml = PyDict([k \in {"DENTALCLINIC"} |-> PyDict([q \in {"Prompt"} |-> PyStr(X)])]))
            => /\ DENTAL_PROMPT = PyStr(X)
               /\ raised # "AttributeError"
               /\ \A j \in Jobs : jobs[j].agent # <<>> => jobs[j].agent[1].instructions = PyStr(X)

C2_Witness ==
    /\ prompt_yaml = PyDict([k \in {"DENTALCLINIC"} |-> PyDict([q \in {"Prompt"} |-> PyStr(PersonaText)])])
    /\ \E j \in Jobs : jobs[j].agent # <<>> /\ jobs[j].agent[1].instructions = PyStr(PersonaText)

\* What each provider setting is expected to resolve to, written out for
\* the environments of the model: the default when unset, else the value.
ExpectedGroqModel == IF environ["GROQ_MODEL"] = NotSet THEN "moonshotai/kimi-k2-instruct" ELSE environ["GROQ_MODEL"][1]
ExpectedTemperature ==
    LET v == environ["GROQ_TEMPERATURE"]
    IN  CASE v = NotSet -> PyFloat(600)
          [] v = SetTo(<<"0", ".", "7">>) -> PyFloat(700)
          [] v = SetTo(<<" ", "1", " ">>) -> PyFloat(1000)
          [] OTHER -> Unbound
ExpectedMaxTokens ==
    LET v == environ["GROQ_MAX_TOKENS"]
    IN  CASE v = NotSet -> PyInt(200)
          [] v = SetTo(<<" ", "5", "0">>) -> PyInt(50)
          [] OTHER -> Unbound
ExpectedDeepgramModel == IF environ["DEEPGRAM_MODEL"] = NotSet THEN "nova-2" ELSE environ["DEEPGRAM_MODEL"][1]
ExpectedDeepgramLanguage == IF environ["DEEPGRAM_LANGUAGE"] = NotSet THEN "en-IN" ELSE environ["DEEPGRAM_LANGUAGE"][1]

\* C3: once the settings are loaded each one is the environment's value
\* when its variable is set and its literal default when unset (0.6 as a
\* float, 200 as an int), and these are the values handed to the STT and
\* LLM constructors of every session.
C3_SettingsResolve ==
    pc \in {"server", "loaded"}
        => /\ GROQ_MODEL = PyStr(ExpectedGroqModel)
           /\ GROQ_TEMPERATURE = ExpectedTemperature
           /\ GROQ_MAX_TOKENS = ExpectedMaxTokens
           /\ DEEPGRAM_MODEL = PyStr(ExpectedDeepgramModel)
           /\ DEEPGRAM_LANGUAGE = PyStr(ExpectedDeepgramLanguage)
           /\ \A j \in Jobs : HasSession(j) =>
                /\ SessionOf(j).stt.model = PyStr(ExpectedDeepgramModel)
                /\ SessionOf(j).stt.language = PyStr(ExpectedDeepgramLanguage)
                /\ SessionOf(j).llm.model = PyStr(ExpectedGroqModel)
                /\ SessionOf(j).llm.temperature = ExpectedTemperature
                /\ SessionOf(j).llm.max_completion_tokens = ExpectedMaxTokens

C3_Witness ==
    /\ environ = AllUnset
    /\ \E j \in Jobs :
        /\ HasSession(j)
        /\ SessionOf(j).llm.model = PyStr("moonshotai/kimi-k2-instruct")
        /\ SessionOf(j).llm.temperature = PyFloat(600)
        /\ SessionOf(j).llm.max_completion_tokens = PyInt(200)
        /\ SessionOf(j).stt.model = PyStr("nova-2")
        /\ SessionOf(j).stt.language = PyStr("en-IN")

KeysUnset == environ["DEEPGRAM_API_KEY"] = NotSet /\ environ["GROQ_API_KEY"] = NotSet
\* The numeric settings are unset or set to a number; written out.
NumericSettingsFine ==
    /\ environ["GROQ_TEMPERATURE"] \in {NotSet, SetTo(<<"0", ".", "7">>), SetTo(<<" ", "1", " ">>)}
    /\ environ["GROQ_MAX_TOKENS"] \in {NotSet, SetTo(<<" ", "5", "0">>)}

\* C4: with neither API key set, the key step logs exactly two entries, one
\* per key, both warnings; the load raises only for an unreadable
\* prompt.yaml or an unparsable numeric setting, never for the keys; a load
\* that completes has registered the server, and every session of a later
\* job is built with the absent keys passed through as None.
C4_MissingKeysOnlyWarn ==
    KeysUnset
        => /\ KeysStepDone =>
                log = << [level |-> "WARNING", msg |-> "DEEPGRAM_API_KEY not found in environment variables"],
                         [level |-> "WARNING", msg |-> "GROQ_API_KEY not found in environment variables"] >>
           /\ ~KeysStepDone => log = <<>>
           /\ (PromptReadable(prompt_yaml) /\ NumericSettingsFine) => pc # "raised"
           /\ pc = "loaded" => server # <<>>
           /\ \A j \in Jobs : HasSession(j) =>
                /\ SessionOf(j).stt.api_key = PyNone
                /\ SessionOf(j).llm.api_key = PyNone
                /\ SessionOf(j).tts.api_key = PyNone

C4_Witness ==
    /\ KeysUnset /\ Len(log) = 2 /\ pc = "loaded" /\ server # <<>>
    /\ \E j \in Jobs : HasSession(j) /\ jobs[j].started /\ SessionOf(j).stt.api_key = PyNone

\* C5: the selector returns the telephony filter exactly for a SIP
\* participant and the other filter for every other kind, whatever the
\* configuration and the jobs.
C5_TelephonyIffSip ==
    nc # <<>>
        => /\ nc[1].filter = "BVCTelephony" <=> nc[1].kind = "SIP"
           /\ nc[1].filter = "BVC" <=> nc[1].kind # "SIP"

C5_Witness == nc # <<>> /\ nc[1].kind = "SIP" /\ nc[1].filter = "BVCTelephony"

\* C6: userdata["vad"] is written at most once, by prewarm, and the model
\* is loaded at most once; an entrypoint runs only after that write; every
\* session is built with the one prewarmed VAD.
C6_VadWrittenOnce ==
    /\ vadWrites <= 1 /\ vadLoads <= 1
    /\ vadWrites = 1 <=> "vad" \in DOMAIN userdata
    /\ \A j \in Jobs : jobs[j].pc # "pending" =>
        /\ vadWrites = 1 /\ vadLoads = 1
        /\ HasSession(j) /\ SessionOf(j).vad = userdata["vad"]
    /\ \A j, k \in Jobs : (HasSession(j) /\ HasSession(k)) => SessionOf(j).vad = SessionOf(k).vad

C6_Witness ==
    /\ vadWrites = 1
    /\ \E j, k \in Jobs :
        /\ j # k /\ jobs[j].pc = "saying" /\ jobs[k].pc = "starting"
        /\ SessionOf(j).vad = SessionOf(k).vad

\* C7: a job has at most one session, started with a DefaultAgent against
\* the job's own room; the welcome literal is said at most once, only after
\* the start has completed, and exactly once when the entrypoint got past
\* the start.
C7_OneSessionOneGreeting ==
    \A j \in Jobs :
        /\ jobs[j].sessions <= 1
        /\ jobs[j].pc # "pending" =>
            /\ jobs[j].sessions = 1 /\ HasSession(j)
            /\ jobs[j].agent # <<>> /\ jobs[j].agent[1].class = "DefaultAgent"
            /\ jobs[j].room = j
        /\ jobs[j].said \in {<<>>, <<"Hello! Welcome to our dental clinic. How may I help you?">>}
        /\ jobs[j].said # <<>> => jobs[j].started
        /\ jobs[j].pc \in {"saying", "done"} <=> jobs[j].started
        /\ jobs[j].started => Len(jobs[j].said) = 1

C7_Witness ==
    \E j \in Jobs :
        /\ jobs[j].pc = "done" /\ jobs[j].started /\ jobs[j].sessions = 1
        /\ jobs[j].said = <<"Hello! Welcome to our dental clinic. How may I help you?">>

SessionMatchesGlobals(j) ==
    /\ SessionOf(j).stt = [api_key |-> DEEPGRAM_API_KEY, model |-> DEEPGRAM_MODEL, language |-> DEEPGRAM_LANGUAGE]
    /\ SessionOf(j).llm = [api_key |-> GROQ_API_KEY, model |-> GROQ_MODEL,
                           temperature |-> GROQ_TEMPERATURE, max_completion_tokens |-> GROQ_MAX_TOKENS]
    /\ SessionOf(j).tts.api_key = DEEPGRAM_API_KEY
    /\ jobs[j].agent[1].instructions = DENTAL_PROMPT

\* C9: the configuration is complete before any session exists, no step
\* after the load changes a configuration value, and every session, also
\* one built after the environment or prompt.yaml changed, is built from
\* these same values.
C9_ConfigurationFrozen ==
    [][ /\ pc = "loaded" => (pc' = "loaded" /\ globals' = globals)
        /\ \A j \in Jobs : jobs'[j].session # <<>> =>
            /\ pc' = "loaded"
            /\ SessionMatchesGlobals(j)' ]_vars

C9_Witness ==
    /\ environ["DEEPGRAM_MODEL"] = SetTo("nova-2-phonecall")
    /\ \E j \in Jobs :
        /\ HasSession(j) /\ jobs[j].after_change
        /\ SessionOf(j).stt.model = PyStr("nova-2")
        /\ DEEPGRAM_MODEL = PyStr("nova-2")

\* GROQ_TEMPERATURE is set to text that is no number, or GROQ_MAX_TOKENS to
\* text that is no integer; written out for the texts of the model.
NumericSettingUnparsable ==
    \/ environ["GROQ_TEMPERATURE"] = SetTo(<<"w", "a", "r", "m">>)
    \/ environ["GROQ_MAX_TOKENS"] \in {SetTo(<<"1", ".", "5">>), SetTo(<<>>)}

\* C10: with an unparsable numeric setting the load raises at the settings
\* step (ValueError, when prompt.yaml was readable), the server is never
\* created, prewarm never runs and no job ever gets a session.
C10_UnparsableSettingIsFatal ==
    NumericSettingUnparsable
        => /\ pc \notin {"server", "loaded"}
           /\ SettingsStepDone => pc = "raised"
           /\ (SettingsStepDone /\ PromptReadable(prompt_yaml)) => raised = "ValueError"
           /\ server = <<>>
           /\ proc = "init" /\ vadLoads = 0 /\ userdata = NoItems
           /\ \A j \in Jobs : jobs[j] = NoJob

C10_Witness ==
    /\ NumericSettingUnparsable /\ KeysUnset
    /\ pc = "raised" /\ raised = "ValueError" /\ Len(log) = 2 /\ server = <<>>

====
